---- MODULE Spec2Model ----
(***************************************************************************)
(* The filter-and-aggregation pipeline of app.py (a Streamlit script).     *)
(*                                                                         *)
(* Streamlit runs the script top to bottom once at start-up and once more  *)
(* after every widget interaction.  A state of the model is the state at   *)
(* the end of one script run: the widget values and every script global    *)
(* that the run has computed.  One action = one widget interaction plus    *)
(* the complete rerun it triggers.                                         *)
(*                                                                         *)
(* Representation.  Categorical strings are modelled by natural-number     *)
(* codes whose order is the lexicographic order of the strings (groupby    *)
(* sorts its keys).  A Date is the integer YYYYMMDD, whose order is the    *)
(* calendar order.  An optional timestamp is <<>> (NaT) or <<d>>.          *)
(***************************************************************************)
EXTENDS Integers, Sequences, FiniteSets, TLC

VARIABLES
    cache,            \* the st.cache_data memo of load_data()
    df,               \* df = load_data()
    all_regions, regions,
    all_categories, categories,
    all_segments, segments,
    date_range, years, quarters,
    start_date, end_date,
    df_filtered,
    total_revenue, total_orders, avg_order_value,
    monthly_region, category_rev, top_products,
    segment_rev, payment_counts, store_rev,
    runs              \* number of script runs so far

vars == << cache, df, all_regions, regions, all_categories, categories,
           all_segments, segments, date_range, years, quarters,
           start_date, end_date, df_filtered,
           total_revenue, total_orders, avg_order_value,
           monthly_region, category_rev, top_products,
           segment_rev, payment_counts, store_rev, runs >>

----------------------------------------------------------------------------
(* Bounds of the model *)

MaxRows == 3        \* rows of a csv file in the general family
MaxRuns == 3        \* script runs in one session (the first run included)
MaxExtra == 2       \* groups beyond the head(10) cut in the top-N family

(* Program constant *)
TopN == 10          \* .head(10)

----------------------------------------------------------------------------
(* Contents of apple_sales_dataset_1000.csv: bounded families of files *)

RegionPool   == << 2, 1 >>
CategoryPool == << 1, 2 >>
SegmentPool  == << 2, 1 >>
DatePool     == << 20240420, 20231215, 20240110 >>
RevenuePool  == << 100, 200 >>
ProductPool  == << 3, 1, 2 >>
StorePool    == << 2, 1 >>
PaymentPool  == << 1, 2 >>

Pick(pool, pat, i) ==
    pool[ IF pat = "const" THEN 1
          ELSE IF pat = "cycle" THEN ((i - 1) % Len(pool)) + 1
          ELSE (((i - 1) \div 2) % Len(pool)) + 1 ]

CsvRow(i, pr, pc, ps, pd) ==
    [ OrderID         |-> (i + 1) \div 2,
      Date            |-> Pick(DatePool, pd, i),
      Region          |-> Pick(RegionPool, pr, i),
      Category        |-> Pick(CategoryPool, pc, i),
      Product         |-> Pick(ProductPool, "cycle", i),
      Store           |-> Pick(StorePool, "block", i),
      CustomerSegment |-> Pick(SegmentPool, ps, i),
      PaymentMethod   |-> Pick(PaymentPool, "cycle", i),
      TotalRevenue    |-> Pick(RevenuePool, "cycle", i) ]

CsvFiles ==
    { [ i \in 1..n |-> CsvRow(i, pr, pc, ps, pd) ] :
        n \in 1..MaxRows,
        pr \in {"cycle", "block"},
        pc \in {"const", "cycle"},
        ps \in {"const", "block"},
        pd \in {"const", "cycle"} }

(* Files with n > TopN products and stores: row i sells 10*i; when a < b   *)
(* one more row adds to the product and store of row a what makes their   *)
(* sums equal to those of row b.  The rows a, b are among the lowest      *)
(* sellers, on either side of the head(10) cut.                            *)
TopRow(i, n, asc, rev) ==
    [ OrderID         |-> i,
      Date            |-> DatePool[1],
      Region          |-> RegionPool[1],
      Category        |-> CategoryPool[1],
      Product         |-> IF asc THEN i ELSE n + 1 - i,
      Store           |-> IF asc THEN n + 1 - i ELSE i,
      CustomerSegment |-> SegmentPool[1],
      PaymentMethod   |-> PaymentPool[1],
      TotalRevenue    |-> rev ]

TopCsvFiles ==
    UNION { { [ i \in 1..(IF a = b THEN n ELSE n + 1) |->
                IF i <= n THEN TopRow(i, n, asc, 10 * i)
                          ELSE TopRow(a, n, asc, 10 * (b - a)) ] :
              a \in 1..b, asc \in BOOLEAN } :
            <<n, b>> \in ((TopN + 1)..(TopN + MaxExtra)) \X (1..(MaxExtra + 2)) }

----------------------------------------------------------------------------
(* load_data *)

Month(date)   == date \div 100                      \* the "YYYY-MM" bucket
Year(date)    == date \div 10000
Quarter(date) == ((((date \div 100) % 100) - 1) \div 3) + 1

load_data(csv) ==
    [ i \in 1..Len(csv) |->
        [ idx             |-> i,
          OrderID         |-> csv[i].OrderID,
          Date            |-> csv[i].Date,
          Region          |-> csv[i].Region,
          Category        |-> csv[i].Category,
          Product         |-> csv[i].Product,
          Store           |-> csv[i].Store,
          CustomerSegment |-> csv[i].CustomerSegment,
          PaymentMethod   |-> csv[i].PaymentMethod,
          TotalRevenue    |-> csv[i].TotalRevenue,
          Month           |-> Month(csv[i].Date),
          Year            |-> Year(csv[i].Date),
          Quarter         |-> Quarter(csv[i].Date) ] ]

----------------------------------------------------------------------------
(* pandas operations the script uses *)

unique(d, col) == { d[i][col] : i \in DOMAIN d }

isin_all_when_empty(v, values) == values = {} \/ v \in values

isin(v, values) == v \in values

between_exclusive(v, left, right) ==
    /\ left # <<>>
    /\ right # <<>>
    /\ left[1] < v
    /\ v < right[1]

between_swapped(v, left, right) ==
    /\ left # <<>>
    /\ right # <<>>
    /\ \/ left[1] <= v /\ v <= right[1]
       \/ right[1] <= v /\ v <= left[1]

\* Series.between(left, right), inclusive="both"; a comparison with NaT is False
between(v, left, right) ==
    /\ left # <<>>
    /\ right # <<>>
    /\ left[1] <= v
    /\ v <= right[1]

SetMin(S) == CHOOSE x \in S : \A y \in S : x <= y
SetMax(S) == CHOOSE x \in S : \A y \in S : y <= x

min_date(d) == IF Len(d) = 0 THEN <<>> ELSE << SetMin(unique(d, "Date")) >>
max_date(d) == IF Len(d) = 0 THEN <<>> ELSE << SetMax(unique(d, "Date")) >>

RECURSIVE Sum(_)
Sum(d) == IF Len(d) = 0 THEN 0 ELSE d[1].TotalRevenue + Sum(Tail(d))

nunique(d) == Cardinality(unique(d, "OrderID"))

NaN == [ nan |-> TRUE, num |-> 0, den |-> 0 ]

mean_dividing(d) == [ nan |-> FALSE, num |-> Sum(d), den |-> Len(d) ]

\* Series.mean(): the quotient num/den, NaN on an empty series
mean(d) == IF Len(d) = 0 THEN NaN
           ELSE [ nan |-> FALSE, num |-> Sum(d), den |-> Len(d) ]

LexLess(a, b) ==
    \E i \in 1..Len(a) : a[i] < b[i] /\ \A j \in 1..(i - 1) : a[j] = b[j]

RECURSIVE SortedKeys(_)
SortedKeys(K) ==
    IF K = {} THEN <<>>
    ELSE LET m == CHOOSE x \in K : \A y \in K : x = y \/ LexLess(x, y)
         IN  <<m>> \o SortedKeys(K \ {m})

\* the group key of row r: its values in the columns by
KeyOf(r, by) == [ c \in 1..Len(by) |-> r[by[c]] ]

groupby_first(d, by) ==
    LET keys == SortedKeys({ KeyOf(d[i], by) : i \in DOMAIN d })
    IN  [ k \in 1..Len(keys) |->
            [ key          |-> keys[k],
              TotalRevenue |->
                  Head(SelectSeq(d, LAMBDA r : KeyOf(r, by) = keys[k])).TotalRevenue ] ]

\* df.groupby(by)['TotalRevenue'].sum(): one row per key, keys ascending
groupby(d, by) ==
    LET keys == SortedKeys({ KeyOf(d[i], by) : i \in DOMAIN d })
    IN  [ k \in 1..Len(keys) |->
            [ key          |-> keys[k],
              TotalRevenue |-> Sum(SelectSeq(d, LAMBDA r : KeyOf(r, by) = keys[k])) ] ]

Range(s) == { s[i] : i \in DOMAIN s }

RECURSIVE Arrangements(_, _)
Arrangements(G, ascending) ==
    IF G = {} THEN { <<>> }
    ELSE LET m == IF ascending
                  THEN SetMin({ g.TotalRevenue : g \in G })
                  ELSE SetMax({ g.TotalRevenue : g \in G })
         IN  UNION { { <<g>> \o rest : rest \in Arrangements(G \ {g}, ascending) } :
                     g \in { x \in G : x.TotalRevenue = m } }

sort_values_ascending(g) == Arrangements(Range(g), TRUE)

\* .sort_values(by='TotalRevenue', ascending=False): kind defaults to
\* 'quicksort', which is not stable, so the rows with equal TotalRevenue
\* come out in an order the library does not fix.  The set of outcomes.
sort_values(g) == Arrangements(Range(g), FALSE)

head_off_by_one(s, n) ==
    SubSeq(s, 1, IF Len(s) < n - 1 THEN Len(s) ELSE n - 1)

head(s, n) == SubSeq(s, 1, IF Len(s) < n THEN Len(s) ELSE n)

\* value_counts().reset_index(): one (PaymentMethod, Count) row per value;
\* the rows are kept as a set, the pie chart does not depend on their order
value_counts(d) ==
    { [ PaymentMethod |-> p,
        Count |-> Cardinality({ i \in DOMAIN d : d[i].PaymentMethod = p }) ] :
      p \in unique(d, "PaymentMethod") }

----------------------------------------------------------------------------
(* The script: filters, KPIs and chart data *)

\* the values the sidebar widgets return
Widgets == [ regions |-> regions, categories |-> categories,
             segments |-> segments, years |-> years, quarters |-> quarters,
             date_range |-> date_range ]

Checks == [ regions |-> all_regions, categories |-> all_categories,
            segments |-> all_segments ]

\* the value every widget has before the user touches it
Defaults(d) ==
    [ regions    |-> unique(d, "Region"),
      categories |-> unique(d, "Category"),
      segments   |-> unique(d, "CustomerSegment"),
      years      |-> unique(d, "Year"),
      quarters   |-> unique(d, "Quarter"),
      date_range |-> min_date(d) \o max_date(d) ]

StartDate(dr, mn) == IF Len(dr) > 0 THEN << dr[1] >> ELSE mn

EndDate_last(dr, mx) == IF Len(dr) > 0 THEN << dr[Len(dr)] >> ELSE mx

EndDate(dr, mx) == IF Len(dr) > 1 THEN << dr[2] >> ELSE mx

Mask_without_segment(r, w, s, e) ==
    /\ isin(r.Region, w.regions)
    /\ isin(r.Category, w.categories)
    /\ isin(r.Year, w.years)
    /\ isin(r.Quarter, w.quarters)
    /\ between(r.Date, s, e)

Mask(r, w, s, e) ==
    /\ isin(r.Region, w.regions)
    /\ isin(r.Category, w.categories)
    /\ isin(r.CustomerSegment, w.segments)
    /\ isin(r.Year, w.years)
    /\ isin(r.Quarter, w.quarters)
    /\ between(r.Date, s, e)

\* df_filtered = df[...] with min_date, max_date taken from the frame given
Apply(d, w) ==
    LET s == StartDate(w.date_range, min_date(d))
        e == EndDate(w.date_range, max_date(d))
    IN  SelectSeq(d, LAMBDA r : Mask(r, w, s, e))

ByMonthRegion == << "Month", "Region" >>
ByCategory    == << "Category" >>
ByProduct     == << "Product" >>
BySegment     == << "CustomerSegment" >>
ByStore       == << "Store" >>

\* what one run of the script computes from the frame and the widget
\* values; products and stores are the sets of outcomes of the two sorts
Pass(d, w) ==
    LET v == Apply(d, w)
    IN  [ start_date      |-> StartDate(w.date_range, min_date(d)),
          end_date        |-> EndDate(w.date_range, max_date(d)),
          df_filtered     |-> v,
          total_revenue   |-> Sum(v),
          total_orders    |-> nunique(v),
          avg_order_value |-> mean(v),
          monthly_region  |-> groupby(v, ByMonthRegion),
          category_rev    |-> groupby(v, ByCategory),
          products        |-> { head(o, TopN) : o \in sort_values(groupby(v, ByProduct)) },
          segment_rev     |-> groupby(v, BySegment),
          payment_counts  |-> value_counts(v),
          stores          |-> { head(o, TopN) : o \in sort_values(groupby(v, ByStore)) } ]

FirstRun(csv) ==
    LET d == load_data(csv)
        w == Defaults(d)
        p == Pass(d, w)
    IN  /\ cache = d
        /\ df = d
        /\ all_regions = TRUE /\ regions = w.regions
        /\ all_categories = TRUE /\ categories = w.categories
        /\ all_segments = TRUE /\ segments = w.segments
        /\ date_range = w.date_range
        /\ years = w.years
        /\ quarters = w.quarters
        /\ start_date = p.start_date
        /\ end_date = p.end_date
        /\ df_filtered = p.df_filtered
        /\ total_revenue = p.total_revenue
        /\ total_orders = p.total_orders
        /\ avg_order_value = p.avg_order_value
        /\ monthly_region = p.monthly_region
        /\ category_rev = p.category_rev
        /\ top_products \in p.products
        /\ segment_rev = p.segment_rev
        /\ payment_counts = p.payment_counts
        /\ store_rev \in p.stores
        /\ runs = 1

Init == \E csv \in CsvFiles : FirstRun(csv)

InitTop == \E csv \in TopCsvFiles : FirstRun(csv)

Script_in_place(w, chk) ==
    LET p == Pass(cache, w)
    IN  /\ runs < MaxRuns
        /\ runs' = runs + 1
        /\ cache' = p.df_filtered
        /\ df' = p.df_filtered
        /\ all_regions' = chk.regions /\ regions' = w.regions
        /\ all_categories' = chk.categories /\ categories' = w.categories
        /\ all_segments' = chk.segments /\ segments' = w.segments
        /\ date_range' = w.date_range
        /\ years' = w.years
        /\ quarters' = w.quarters
        /\ start_date' = p.start_date
        /\ end_date' = p.end_date
        /\ df_filtered' = p.df_filtered
        /\ total_revenue' = p.total_revenue
        /\ total_orders' = p.total_orders
        /\ avg_order_value' = p.avg_order_value
        /\ monthly_region' = p.monthly_region
        /\ category_rev' = p.category_rev
        /\ top_products' \in p.products
        /\ segment_rev' = p.segment_rev
        /\ payment_counts' = p.payment_counts
        /\ store_rev' \in p.stores

\* one rerun of the script with the widgets returning w and chk
Script(w, chk) ==
    LET p == Pass(cache, w)
    IN  /\ runs < MaxRuns
        /\ runs' = runs + 1
        /\ cache' = cache
        /\ df' = cache
        /\ all_regions' = chk.regions /\ regions' = w.regions
        /\ all_categories' = chk.categories /\ categories' = w.categories
        /\ all_segments' = chk.segments /\ segments' = w.segments
        /\ date_range' = w.date_range
        /\ years' = w.years
        /\ quarters' = w.quarters
        /\ start_date' = p.start_date
        /\ end_date' = p.end_date
        /\ df_filtered' = p.df_filtered
        /\ total_revenue' = p.total_revenue
        /\ total_orders' = p.total_orders
        /\ avg_order_value' = p.avg_order_value
        /\ monthly_region' = p.monthly_region
        /\ category_rev' = p.category_rev
        /\ top_products' \in p.products
        /\ segment_rev' = p.segment_rev
        /\ payment_counts' = p.payment_counts
        /\ store_rev' \in p.stores

----------------------------------------------------------------------------
(* Widget interactions; each one reruns the script *)

\* the checkbox swaps one multiselect for the other, which starts at its
\* own default: every option when checked, nothing when unchecked
ToggleAllRegions ==
    Script([ Widgets EXCEPT !.regions =
                 IF all_regions THEN {} ELSE unique(df, "Region") ],
           [ Checks EXCEPT !.regions = ~all_regions ])

SelectRegions ==
    \E S \in SUBSET unique(df, "Region") :
        /\ S # regions
        /\ Script([ Widgets EXCEPT !.regions = S ], Checks)

ToggleAllCategories ==
    Script([ Widgets EXCEPT !.categories =
                 IF all_categories THEN {} ELSE unique(df, "Category") ],
           [ Checks EXCEPT !.categories = ~all_categories ])

SelectCategories ==
    \E S \in SUBSET unique(df, "Category") :
        /\ S # categories
        /\ Script([ Widgets EXCEPT !.categories = S ], Checks)

ToggleAllSegments ==
    Script([ Widgets EXCEPT !.segments =
                 IF all_segments THEN {} ELSE unique(df, "CustomerSegment") ],
           [ Checks EXCEPT !.segments = ~all_segments ])

SelectSegments ==
    \E S \in SUBSET unique(df, "CustomerSegment") :
        /\ S # segments
        /\ Script([ Widgets EXCEPT !.segments = S ], Checks)

\* the dates the user can pick: those of the file
DateChoices == unique(df, "Date")

\* st.date_input in range mode returns 0, 1 or 2 dates
SelectDateRange ==
    \E dr \in { <<>> } \cup { <<a>> : a \in DateChoices }
               \cup { <<a, b>> : a \in DateChoices, b \in DateChoices } :
        /\ dr # date_range
        /\ Script([ Widgets EXCEPT !.date_range = dr ], Checks)

SelectYears ==
    \E S \in SUBSET unique(df, "Year") :
        /\ S # years
        /\ Script([ Widgets EXCEPT !.years = S ], Checks)

SelectQuarters ==
    \E S \in SUBSET unique(df, "Quarter") :
        /\ S # quarters
        /\ Script([ Widgets EXCEPT !.quarters = S ], Checks)

Next ==
    \/ ToggleAllRegions
    \/ SelectRegions
    \/ ToggleAllCategories
    \/ SelectCategories
    \/ ToggleAllSegments
    \/ SelectSegments
    \/ SelectDateRange
    \/ SelectYears
    \/ SelectQuarters

Spec == Init /\ [][Next]_vars

SpecTop == InitTop /\ [][Next]_vars

----------------------------------------------------------------------------
(* Properties *)

Rows(d) == { d[i] : i \in DOMAIN d }

FullSelection ==
    /\ regions = unique(df, "Region")
    /\ categories = unique(df, "Category")
    /\ segments = unique(df, "CustomerSegment")
    /\ years = unique(df, "Year")
    /\ quarters = unique(df, "Quarter")

\* the five acceptance-set conditions of the current FilterSpec
FiveConditions(r) ==
    /\ r.Region \in regions
    /\ r.Category \in categories
    /\ r.CustomerSegment \in segments
    /\ r.Year \in years
    /\ r.Quarter \in quarters

\* C1: df_filtered holds exactly the rows of df whose Region, Category,
\* CustomerSegment, Year and Quarter are in the selected sets and whose Date
\* lies in [start_date, end_date], both ends included; each such row once.
Thm_C1 ==
    LET M == { r \in Rows(df) : /\ FiveConditions(r)
                                /\ start_date[1] <= r.Date
                                /\ r.Date <= end_date[1] }
    IN  /\ Rows(df_filtered) = M
        /\ Len(df_filtered) = Cardinality(M)

\* a run after an interaction that keeps some rows and drops others, a kept
\* row lying on each end of the date range and a dropped row beyond the end
Wit_C1 ==
    /\ runs > 1
    /\ Len(date_range) = 2
    /\ 0 < Len(df_filtered)
    /\ Len(df_filtered) < Len(df)
    /\ \E r \in Rows(df_filtered) : r.Date = end_date[1]
    /\ \E r \in Rows(df_filtered) : r.Date = start_date[1]
    /\ \E r \in Rows(df) : r.Date > end_date[1]

\* C2: when one of regions, categories, segments, years, quarters is empty,
\* df_filtered is empty, whatever the other selections and the date range.
Thm_C2 ==
    ( \/ regions = {}
      \/ categories = {}
      \/ segments = {}
      \/ years = {}
      \/ quarters = {} ) => Len(df_filtered) = 0

\* one set emptied while every other filter still accepts every row
Wit_C2 ==
    /\ categories = {}
    /\ regions = unique(df, "Region")
    /\ segments = unique(df, "CustomerSegment")
    /\ years = unique(df, "Year")
    /\ quarters = unique(df, "Quarter")
    /\ date_range = min_date(df) \o max_date(df)
    /\ Len(df) > 1
    /\ Len(df_filtered) = 0

\* C3: on an empty df_filtered the sums and counts are 0, the mean is the
\* NaN sentinel (no division by zero) and every grouped result has no rows.
Thm_C3 ==
    Len(df_filtered) = 0 =>
        /\ total_revenue = 0
        /\ total_orders = 0
        /\ avg_order_value = NaN
        /\ monthly_region = <<>>
        /\ category_rev = <<>>
        /\ top_products = <<>>
        /\ segment_rev = <<>>
        /\ payment_counts = {}
        /\ store_rev = <<>>

\* a run whose filters match no row of a file that has rows
Wit_C3 ==
    /\ runs > 1
    /\ Len(df) > 0
    /\ Len(df_filtered) = 0
    /\ avg_order_value.nan

\* the groups of df_filtered by column col with their summed TotalRevenue
GroupSums(col) ==
    { [ key |-> << k >>,
        TotalRevenue |-> Sum(SelectSeq(df_filtered, LAMBDA r : r[col] = k)) ] :
      k \in { r[col] : r \in Rows(df_filtered) } }

TopTen(t, G) ==
    /\ Len(t) <= TopN
    /\ \A i \in 1..(Len(t) - 1) : t[i].TotalRevenue >= t[i + 1].TotalRevenue
    /\ Rows(t) \subseteq G
    /\ \A g \in G \ Rows(t) : \A h \in Rows(t) : g.TotalRevenue <= h.TotalRevenue

\* C4: top_products and store_rev have at most 10 rows, in non-increasing
\* order of summed TotalRevenue, and no group that is left out has a larger
\* sum than a group that is in.
Thm_C4 ==
    /\ TopTen(top_products, GroupSums("Product"))
    /\ TopTen(store_rev, GroupSums("Store"))

\* after an interaction, both results are cut at 10 rows and leave groups out
Wit_C4 ==
    /\ runs > 1
    /\ Len(top_products) = TopN
    /\ Len(store_rev) = TopN
    /\ GroupSums("Product") \ Rows(top_products) # {}
    /\ GroupSums("Store") \ Rows(store_rev) # {}

\* the row of df_filtered where the group k is first met
FirstSeen(col, k) ==
    SetMin({ i \in DOMAIN df_filtered : << df_filtered[i][col] >> = k })

EncounterOrder(t, col) ==
    /\ \A i \in DOMAIN t : \A j \in DOMAIN t :
          (i < j /\ t[i].TotalRevenue = t[j].TotalRevenue)
              => FirstSeen(col, t[i].key) < FirstSeen(col, t[j].key)
    /\ \A g \in GroupSums(col) \ Rows(t) : \A h \in Rows(t) :
          g.TotalRevenue = h.TotalRevenue
              => FirstSeen(col, h.key) < FirstSeen(col, g.key)

\* C5 as stated: in top_products and store_rev, groups with equal sums are
\* in the order in which they are first met in df_filtered, among the rows
\* returned and across the cut at 10.
Orig_C5 ==
    /\ EncounterOrder(top_products, "Product")
    /\ EncounterOrder(store_rev, "Store")

\* the sums of t are the Len(t) largest sums of G, largest first
LargestSums(t, G) ==
    /\ Len(t) = IF Cardinality(G) < TopN THEN Cardinality(G) ELSE TopN
    /\ Rows(t) \subseteq G
    /\ Cardinality(Rows(t)) = Len(t)
    /\ \A i \in DOMAIN t :
          /\ Cardinality({ g \in G : g.TotalRevenue > t[i].TotalRevenue }) < i
          /\ i <= Cardinality({ g \in G : g.TotalRevenue >= t[i].TotalRevenue })

\* C5 amended: the order of groups with equal sums is not fixed (neither
\* among the rows returned nor across the cut at 10); what is fixed is the
\* sequence of sums: the min(10, number of groups) largest, largest first,
\* each row being a distinct group of df_filtered.
Thm_C5 ==
    /\ LargestSums(top_products, GroupSums("Product"))
    /\ LargestSums(store_rev, GroupSums("Store"))

\* two products with equal sums on either side of the cut, the one that is
\* left out being met first in df_filtered
Wit_C5 ==
    /\ runs > 1
    /\ Len(top_products) = TopN
    /\ \E g \in GroupSums("Product") \ Rows(top_products) :
       \E h \in Rows(top_products) :
          /\ g.TotalRevenue = h.TotalRevenue
          /\ FirstSeen("Product", g.key) < FirstSeen("Product", h.key)

\* C6: when start_date > end_date, df_filtered is empty, whatever the other
\* filter values are.
Thm_C6 ==
    (start_date # <<>> /\ end_date # <<>> /\ start_date[1] > end_date[1])
        => Len(df_filtered) = 0

\* a reversed range around the date of a row that every other filter accepts
Wit_C6 ==
    /\ Len(date_range) = 2
    /\ start_date[1] > end_date[1]
    /\ FullSelection
    /\ \E r \in Rows(df) : end_date[1] <= r.Date /\ r.Date <= start_date[1]
    /\ Len(df_filtered) = 0

IsMinDate(t) ==
    /\ \E r \in Rows(df) : r.Date = t[1]
    /\ \A r \in Rows(df) : t[1] <= r.Date

IsMaxDate(t) ==
    /\ \E r \in Rows(df) : r.Date = t[1]
    /\ \A r \in Rows(df) : r.Date <= t[1]

\* C7: with no date in date_range, start_date and end_date are the least and
\* the greatest Date of df and the date condition drops no row; with only
\* the start in date_range, end_date is the greatest Date of df and the rows
\* kept are exactly those with Date >= start that pass the five other
\* conditions.
Thm_C7 ==
    /\ Len(date_range) = 0 =>
          /\ IsMinDate(start_date)
          /\ IsMaxDate(end_date)
          /\ Rows(df_filtered) = { r \in Rows(df) : FiveConditions(r) }
    /\ Len(date_range) = 1 =>
          /\ start_date = << date_range[1] >>
          /\ IsMaxDate(end_date)
          /\ Rows(df_filtered) =
                { r \in Rows(df) : FiveConditions(r) /\ r.Date >= date_range[1] }

\* only the start is given: a row before it is dropped, a row after it kept
Wit_C7 ==
    /\ Len(date_range) = 1
    /\ \E r \in Rows(df) : r.Date < date_range[1] /\ FiveConditions(r)
    /\ \E r \in Rows(df_filtered) : r.Date > date_range[1]

RECURSIVE SumMetric(_)
SumMetric(g) == IF Len(g) = 0 THEN 0 ELSE g[1].TotalRevenue + SumMetric(Tail(g))

\* C8: on the unfiltered dataset the sums of category_rev add up to
\* total_revenue, and every row's Category is the key of exactly one group.
Thm_C8 ==
    df_filtered = df =>
        /\ SumMetric(category_rev) = total_revenue
        /\ \A r \in Rows(df) :
              Cardinality({ k \in DOMAIN category_rev :
                              category_rev[k].key = << r.Category >> }) = 1

\* an unfiltered rerun with two categories, one of them holding two rows
Wit_C8 ==
    /\ runs > 1
    /\ df_filtered = df
    /\ Len(category_rev) = 2
    /\ Len(df) > 2
    /\ total_revenue > 0

\* C9: filtering df_filtered again with the same widget values returns
\* df_filtered.
Thm_C9 == Apply(df_filtered, Widgets) = df_filtered

\* a proper, non-empty subset of the rows, filtered with an open date range
Wit_C9 ==
    /\ runs > 1
    /\ Len(date_range) < 2
    /\ 0 < Len(df_filtered)
    /\ Len(df_filtered) < Len(df)

PassOfLoaded ==
    LET p == Pass(cache, Widgets)
    IN  /\ df = cache
        /\ start_date = p.start_date
        /\ end_date = p.end_date
        /\ df_filtered = p.df_filtered
        /\ total_revenue = p.total_revenue
        /\ total_orders = p.total_orders
        /\ avg_order_value = p.avg_order_value
        /\ monthly_region = p.monthly_region
        /\ category_rev = p.category_rev
        /\ top_products \in p.products
        /\ segment_rev = p.segment_rev
        /\ payment_counts = p.payment_counts
        /\ store_rev \in p.stores

\* C10: no run changes the loaded dataset, and after every run df_filtered
\* and every aggregation result are those of one pass over the loaded
\* dataset with the current widget values.
Thm_C10 == [][cache' = cache /\ df' = df]_vars /\ []PassOfLoaded

\* a third run, after two FilterSpec changes, that keeps part of the rows
Wit_C10 ==
    /\ runs > 2
    /\ 0 < Len(df_filtered)
    /\ Len(df_filtered) < Len(df)
    /\ ~FullSelection

====
